---- MODULE Spec2Model ----
(***************************************************************************)
(* Model of starsource-comparer: symbol extraction from the debug file,    *)
(* the address maps of the two binaries, the selective disassembly         *)
(* formatter, the comparison engine (single compare, full listings,        *)
(* report) and the refresh controller of the watch mode.                   *)
(***************************************************************************)
EXTENDS Integers, Sequences, FiniteSets, TLC

\* ------------------------------------------------------------------ bounds

\* Longest raw symbol name drawn for the formatter specification.
MaxNameLen == 2
\* Largest magnitude of a call immediate drawn for the formatter specification.
MaxImm == 6
\* Most file-system events the watcher delivers in one session.
MaxEvents == 2

\* ------------------------------------------------------- program constants

\* pdb.rs: pub const PDB_SEGMENT_OFFSET: u64 = 0x0040_0C00
PDB_SEGMENT_OFFSET == 4197376
\* pdb.rs: offset: (data.start_rva - 0xC00)
PDB_PREAMBLE == 3072
\* disasm.rs: 0xE8 => direct call
OPCODE_CALL == 232

\* ------------------------------------------------------------ Option<T>

None == <<>>
Some(x) == <<x>>
IsSome(o) == o # <<>>
Unwrap(o) == o[1]
UnwrapOr(o, d) == IF o = <<>> THEN d ELSE o[1]

Min(a, b) == IF a < b THEN a ELSE b

\* ------------------------------------------------------------- strings
\* A string is a sequence of one-character strings.

NameChars == {"f", "@", "("}

RECURSIVE TakeUntil(_, _)
TakeUntil(s, stop) ==
  IF s = <<>> \/ Head(s) \in stop THEN <<>>
  ELSE <<Head(s)>> \o TakeUntil(Tail(s), stop)

RECURSIVE DropWhile(_, _)
DropWhile(s, set) ==
  IF s = <<>> \/ Head(s) \notin set THEN s ELSE DropWhile(Tail(s), set)

\* name.split('(').next().unwrap_or(name)
cleanup_name(name) == TakeUntil(name, {"("})

\* Regex [^@(]+ : the first match is the first maximal run without '@' and
\* '('; no match collects to the empty string.
demangle_function_name(name) ==
  TakeUntil(DropWhile(name, {"@", "("}), {"@", "("})

HexDigits == <<"0", "1", "2", "3", "4", "5", "6", "7", "8", "9",
               "A", "B", "C", "D", "E", "F">>
LowerHexDigits == <<"0", "1", "2", "3", "4", "5", "6", "7", "8", "9",
                    "a", "b", "c", "d", "e", "f">>

RECURSIVE HexWith(_, _)
HexWith(digits, n) ==
  IF n < 16 THEN <<digits[n + 1]>>
  ELSE HexWith(digits, n \div 16) \o <<digits[(n % 16) + 1]>>

\* format!("{:X}", n)
UpperHex(n) == HexWith(HexDigits, n)

FormatAltLowerHex(n) == <<"0", "x">> \o HexWith(LowerHexDigits, n)
\* format!("{:#X}", n)
FormatAltUpperHex(n) == <<"0", "x">> \o UpperHex(n)

\* format!("{}", n) of an unsigned number
RECURSIVE Decimal(_)
Decimal(n) ==
  IF n < 10 THEN <<HexDigits[n + 1]>>
  ELSE Decimal(n \div 10) \o <<HexDigits[(n % 10) + 1]>>

\* format!("{:+#X}", CustomUpperHexFormat(v)) : sign, 0x, magnitude
FormatSignedHex(v) ==
  IF v < 0 THEN <<"-">> \o FormatAltUpperHex(-v)
  ELSE <<"+">> \o FormatAltUpperHex(v)

\* ------------------------------------------------------------- decoder
\* The decoder collaborator (Decoder::new32) on the opcodes the images of
\* the model contain: 90 nop, C3 ret, E8 call rel32, 00 /r add r/m8, r8,
\* 68 push imm32, EB jmp rel8, FF /2 call r/m32, FF /4 jmp r/m32.

Reg8 == <<"al", "cl", "dl", "bl", "ah", "ch", "dh", "bh">>
Reg32 == <<"eax", "ecx", "edx", "ebx", "esp", "ebp", "esi", "edi">>

\* Little-endian signed 32-bit value at bytes[p .. p+3].
S32LE(bytes, p) ==
  LET low == bytes[p] + 256 * bytes[p + 1] + 65536 * bytes[p + 2]
      hi  == bytes[p + 3]
  IN  IF hi >= 128 THEN (hi - 256) * 16777216 + low ELSE hi * 16777216 + low

NoOperand ==
  [kind |-> "None", reg |-> "", base |-> "", has_displacement |-> FALSE,
   displacement |-> 0, is_relative |-> FALSE, is_signed |-> FALSE,
   value |-> 0, size |-> 0]
RegOperand(r) == [NoOperand EXCEPT !.kind = "Reg", !.reg = r, !.size = 8]
MemOperand(b, has, d) ==
  [NoOperand EXCEPT !.kind = "Mem", !.base = b, !.has_displacement = has,
                    !.displacement = d, !.size = 8]
RelOperand(v) ==
  [NoOperand EXCEPT !.kind = "Imm", !.is_relative = TRUE, !.is_signed = TRUE,
                    !.value = v, !.size = 32]

\* An immediate that is a value, not a branch target (sign-extended).
ImmOperand(v, size) ==
  [NoOperand EXCEPT !.kind = "Imm", !.is_signed = TRUE, !.value = v, !.size = size]

S8(b) == IF b >= 128 THEN b - 256 ELSE b

\* The ModRM byte at bytes[p] and its displacement (no SIB byte): the r/m
\* operand, the reg field and the number of bytes taken.
decode_modrm(bytes, p, regs, size) ==
  LET avail == Len(bytes) - p + 1
      modrm == IF avail >= 1 THEN bytes[p] ELSE 0
      mod   == modrm \div 64
      reg   == (modrm \div 8) % 8
      rm    == modrm % 8
      dlen  == CASE mod = 1 -> 1
                 [] mod = 2 -> 4
                 [] mod = 0 /\ rm = 5 -> 4
                 [] OTHER -> 0
  IN  IF avail < 1 + dlen
      THEN [eof |-> TRUE, length |-> 0, reg |-> 0, operand |-> NoOperand]
      ELSE [eof |-> FALSE, length |-> 1 + dlen, reg |-> reg,
            operand |->
              CASE mod = 3 -> [RegOperand(regs[rm + 1]) EXCEPT !.size = size]
                [] mod = 0 /\ rm = 5 ->
                     [MemOperand("", TRUE, S32LE(bytes, p + 1)) EXCEPT !.size = size]
                [] mod = 0 /\ rm # 5 ->
                     [MemOperand(Reg32[rm + 1], FALSE, 0) EXCEPT !.size = size]
                [] mod = 1 ->
                     [MemOperand(Reg32[rm + 1], TRUE, S8(bytes[p + 1])) EXCEPT !.size = size]
                [] mod = 2 ->
                     [MemOperand(Reg32[rm + 1], TRUE, S32LE(bytes, p + 1)) EXCEPT !.size = size]]

\* An item Err(status) of decode_all: the bytes are no instruction.
DecodeError == [ok |-> FALSE, eof |-> FALSE, length |-> 0, opcode |-> 0, mnemonic |-> "",
                modrm_reg |-> 0, operands |-> <<>>]
\* The end of decode_all: the decoder ran out of bytes, at the end of the
\* slice or inside an instruction the slice cuts off.
NoMoreData == [DecodeError EXCEPT !.eof = TRUE]
Decoded(len, op, mn, reg, ops) ==
  [ok |-> TRUE, eof |-> FALSE, length |-> len, opcode |-> op, mnemonic |-> mn,
   modrm_reg |-> reg, operands |-> ops]

\* add r/m8, r8 (opcode 00) with the decoded ModRM byte m
decoded_add(op, m) ==
  IF m.eof THEN NoMoreData
  ELSE Decoded(1 + m.length, op, "add", m.reg, <<m.operand, RegOperand(Reg8[m.reg + 1])>>)

\* The instructions of opcode FF with the decoded ModRM byte m: /2 is the
\* indirect call, /4 the indirect jmp.
decoded_group5(op, m) ==
  IF m.eof THEN NoMoreData
  ELSE (CASE m.reg = 2 -> Decoded(1 + m.length, op, "call", m.reg, <<m.operand>>)
          [] m.reg = 4 -> Decoded(1 + m.length, op, "jmp", m.reg, <<m.operand>>))

\* One instruction at bytes[pos ..]. 0F 04 is no instruction: a decode
\* error. An instruction that runs past the end of the slice ends the
\* iteration without an error.
decode_one(bytes, pos) ==
  LET avail == Len(bytes) - pos + 1
      op    == bytes[pos]
  IN  CASE op = 144 -> Decoded(1, op, "nop", 0, <<>>)
        [] op = 195 -> Decoded(1, op, "ret", 0, <<>>)
        [] op = 15 ->
             IF avail < 2 THEN NoMoreData
             ELSE (CASE bytes[pos + 1] = 4 -> DecodeError)
        [] op = OPCODE_CALL ->
             IF avail < 5 THEN NoMoreData
             ELSE Decoded(5, op, "call", 0, <<RelOperand(S32LE(bytes, pos + 1))>>)
        [] op = 104 ->
             IF avail < 5 THEN NoMoreData
             ELSE Decoded(5, op, "push", 0, <<ImmOperand(S32LE(bytes, pos + 1), 32)>>)
        [] op = 235 ->
             IF avail < 2 THEN NoMoreData
             ELSE Decoded(2, op, "jmp", 0, <<[RelOperand(S8(bytes[pos + 1])) EXCEPT !.size = 8]>>)
        [] op = 0 -> decoded_add(op, decode_modrm(bytes, pos + 1, Reg8, 8))
        [] op = 255 -> decoded_group5(op, decode_modrm(bytes, pos + 1, Reg32, 32))

\* Instruction::calc_absolute_address for a relative immediate.
calc_absolute_address(runtime_address, insn, op) ==
  runtime_address + insn.length + op.value

\* ----------------------------------------------------------- formatter

\* The map lookup of a call target that misses prints lower-case hex.
format_call_target_lower(extra, insn, op) ==
  LET target_addr == calc_absolute_address(extra.offset, insn, op)
  IN  IF target_addr \in DOMAIN extra.fn_map
      THEN cleanup_name(extra.fn_map[target_addr].name)
      ELSE FormatAltLowerHex(target_addr)

\* format_addrs, the 0xE8 arm
format_call_target(extra, insn, op) ==
  LET target_addr == calc_absolute_address(extra.offset, insn, op)
  IN  IF target_addr \in DOMAIN extra.fn_map
      THEN cleanup_name(extra.fn_map[target_addr].name)
      ELSE FormatAltUpperHex(target_addr)

\* The hook prints the address of an indirect call like any other address.
format_addrs_no_indir(extra, insn, op) ==
  CASE op.kind = "Mem" ->
         IF op.has_displacement THEN FormatAltUpperHex(op.displacement)
         ELSE <<"<indir_addr>">>
    [] op.kind = "Imm" ->
         IF insn.opcode = OPCODE_CALL THEN format_call_target(extra, insn, op)
         ELSE IF op.is_relative
              THEN <<"$">> \o FormatSignedHex(op.value)
              ELSE <<"<imm_addr>">>
    [] OTHER -> <<>>

\* print_address_abs hook
format_addrs(extra, insn, op) ==
  CASE op.kind = "Mem" ->
         IF op.has_displacement
         THEN IF insn.opcode = 255 /\ insn.modrm_reg \in {2, 3}
              THEN <<"<indir_fn>">>
              ELSE FormatAltUpperHex(op.displacement)
         ELSE <<"<indir_addr>">>
    [] op.kind = "Imm" ->
         IF insn.opcode = OPCODE_CALL THEN format_call_target(extra, insn, op)
         ELSE IF op.is_relative
              THEN <<"$">> \o FormatSignedHex(op.value)
              ELSE <<"<imm_addr>">>
    [] OTHER -> <<>>

\* print_disp hook installed when show_mem_disp is false
void_format_disp(op) ==
  IF op.kind = "Mem" /\ op.has_displacement
  THEN <<IF op.displacement < 0 THEN "-" ELSE "+">>
       \o <<"<disp">> \o Decimal(op.size) \o <<">">>
  ELSE <<>>

\* The formatter's own displacement printer (show_mem_disp true).
default_format_disp(op) ==
  IF op.kind = "Mem" /\ op.has_displacement
  THEN FormatSignedHex(op.displacement)
  ELSE <<>>

\* The placeholder is replaced by the value of the immediate.
void_format_imms_shows_value(op) == FormatAltUpperHex(op.value)

\* print_imm hook installed when show_imms is false
void_format_imms(op) == <<"<imm">> \o Decimal(op.size) \o <<">">>

\* The formatter's own printer of an immediate value (show_imms true).
default_format_imm(op) ==
  IF op.is_signed /\ op.value < 0 THEN <<"-">> \o FormatAltUpperHex(-op.value)
  ELSE FormatAltUpperHex(op.value)

\* Formatter::format_ex on one operand, with the hooks write_disasm installed.
format_operand(extra, insn, op) ==
  CASE op.kind = "Reg" -> <<op.reg>>
    [] op.kind = "Mem" ->
         IF op.base = "" THEN <<"[">> \o format_addrs(extra, insn, op) \o <<"]">>
         ELSE <<"[", op.base>>
              \o (IF extra.opts.show_mem_disp THEN default_format_disp(op)
                  ELSE void_format_disp(op))
              \o <<"]">>
    [] op.kind = "Imm" ->
         IF op.is_relative THEN format_addrs(extra, insn, op)
         ELSE IF extra.opts.show_imms THEN default_format_imm(op)
              ELSE void_format_imms(op)
    [] OTHER -> <<>>

RECURSIVE format_operands(_, _, _)
format_operands(extra, insn, ops) ==
  IF ops = <<>> THEN <<>>
  ELSE format_operand(extra, insn, Head(ops))
       \o (IF Len(ops) > 1 THEN <<",", " ">> ELSE <<>>)
       \o format_operands(extra, insn, Tail(ops))

\* One output line of write_disasm.
format_line(extra, insn, ip) ==
  (IF extra.opts.print_adresses THEN UpperHex(ip) \o <<":", " ">> ELSE <<>>)
  \o <<insn.mnemonic>>
  \o (IF insn.operands = <<>> THEN <<>> ELSE <<" ">>)
  \o format_operands(extra, insn, insn.operands)

\* write_disasm: the lines written, and how the call ended. A decode error
\* is unwrapped (line 101), which aborts the process; the lines written
\* before it are already in the writer.
RECURSIVE disasm_from(_, _, _, _, _)

\* The line of one formatted instruction in front of the rest of the output.
disasm_prepend(line, rest) ==
  [status |-> rest.status, lines |-> <<line>> \o rest.lines]

\* The body of the loop of write_disasm on the decoder's item insn at ip.
disasm_insn(insn, ip, bytes, pos, opts, offset, fn_map) ==
  IF insn.eof THEN [status |-> "Ok", lines |-> <<>>]
  ELSE IF ~insn.ok THEN [status |-> "Panic", lines |-> <<>>]
  ELSE disasm_prepend(
         format_line([opts |-> opts, fn_map |-> fn_map, offset |-> ip], insn, ip),
         disasm_from(bytes, pos + insn.length, opts, offset, fn_map))

disasm_from(bytes, pos, opts, offset, fn_map) ==
  IF pos > Len(bytes) THEN [status |-> "Ok", lines |-> <<>>]
  ELSE disasm_insn(decode_one(bytes, pos), offset + pos - 1, bytes, pos, opts, offset, fn_map)

write_disasm(bytes, opts, offset, fn_map) ==
  disasm_from(bytes, 1, opts, offset, fn_map)

\* ------------------------------------------------- symbols and address maps

FunctionDefinition(name, addr, size) == [name |-> name, addr |-> addr, size |-> size]

\* A raw function record of the debug file.
PdbRecord(name, start_rva, end_rva) ==
  [name |-> name, start_rva |-> start_rva, end_rva |-> end_rva]

\* to_function_symbol (the record carries a name)
to_function_symbol(data) ==
  [name   |-> Unwrap(data.name),
   file   |-> "UNKNOWN",
   offset |-> data.start_rva - PDB_PREAMBLE,
   size   |-> UnwrapOr(data.end_rva, data.start_rva) - data.start_rva]

\* The body of the loop of get_pdb_funcs: ret.insert(name, fun).
RECURSIVE pdb_insert_all(_, _)
pdb_insert_all(records, ret) ==
  IF records = <<>> THEN [status |-> "Ok", funcs |-> ret]
  ELSE LET data == Head(records)
       IN  IF data.name = None
           THEN [status |-> "Panic", funcs |-> ret]   \* data.name.unwrap()
           ELSE LET fun  == to_function_symbol(data)
                    name == demangle_function_name(fun.name)
                IN  pdb_insert_all(Tail(records),
                      [k \in DOMAIN ret \cup {name} |->
                         IF k = name THEN fun ELSE ret[k]])

EmptyMap == [k \in {} |-> 0]

\* get_pdb_funcs on a debug file [readable, functions]
get_pdb_funcs(file) ==
  IF ~file.readable THEN [status |-> "PdbError", funcs |-> EmptyMap]
  ELSE pdb_insert_all(file.functions, EmptyMap)

\* The definition keeps the file-relative offset as its address.
as_function_definition_no_segment(sym) ==
  FunctionDefinition(sym.name, sym.offset, Some(sym.size))

\* FunctionSymbol::as_function_definition
as_function_definition(sym) ==
  FunctionDefinition(sym.name, sym.offset + PDB_SEGMENT_OFFSET, Some(sym.size))

\* FunctionSymbol::as_function_definition_pair
as_function_definition_pair(sym) ==
  LET func == as_function_definition(sym) IN <<func.addr, func>>

\* Collecting (key, value) pairs that come out of a HashMap iteration into a
\* HashMap: the iteration order is unspecified, so of several values with
\* one key any may be the one that stays.
CollectUnordered(pairs) ==
  LET keys == {p[1] : p \in pairs}
  IN  {m \in [keys -> {p[2] : p \in pairs}] :
         \A k \in keys : <<k, m[k]>> \in pairs}

\* get_pdb_fn_map: every map the collect may build
get_pdb_fn_map(pdb_funcs) ==
  CollectUnordered({as_function_definition_pair(pdb_funcs[n]) : n \in DOMAIN pdb_funcs})

\* cfg.func.iter().map(|func| (func.addr, func.clone())).collect(): in list
\* order, a later definition replaces an earlier one with the same address.
RECURSIVE collect_by_addr(_, _)
collect_by_addr(funcs, acc) ==
  IF funcs = <<>> THEN acc
  ELSE collect_by_addr(Tail(funcs),
         [k \in DOMAIN acc \cup {Head(funcs).addr} |->
            IF k = Head(funcs).addr THEN Head(funcs) ELSE acc[k]])

orig_fn_map_of(cfg) == collect_by_addr(cfg.func, EmptyMap)

\* ------------------------------------------------------------ byte ranges

\* a - b on unsigned integers: with overflow checks the subtraction panics,
\* without them it wraps to a value beyond every file.
CheckedSub(a, b, overflow_checks) ==
  IF a >= b THEN [status |-> "Ok", value |-> a - b]
  ELSE IF overflow_checks THEN [status |-> "Panic", value |-> 0]
       ELSE [status |-> "Wrapped", value |-> 0]

InRange(image, offset, len) == offset + len <= Len(image)
Slice(image, offset, len) == SubSeq(image, offset + 1, offset + len)

\* read_file_into: seek to offset, read_exact into a buffer of len bytes.
\* An empty buffer is filled at any offset.
read_file_into(image, offset, len) ==
  IF len = 0 THEN [status |-> "Ok", bytes |-> <<>>]
  ELSE IF InRange(image, offset, len)
       THEN [status |-> "Ok", bytes |-> Slice(image, offset, len)]
       ELSE [status |-> "IoError", bytes |-> <<>>]

\* bytes.get(offset..offset_end)
get_range(image, offset, len) ==
  IF InRange(image, offset, len)
  THEN [status |-> "Ok", bytes |-> Slice(image, offset, len)]
  ELSE [status |-> "FunctionDefSizeWrong", bytes |-> <<>>]

\* &file[offset..offset + size]: an index past the end aborts the process
index_range(image, offset, len) ==
  IF InRange(image, offset, len)
  THEN [status |-> "Ok", bytes |-> Slice(image, offset, len)]
  ELSE [status |-> "Panic", bytes |-> <<>>]

\* ------------------------------------------------------------- ghost log
\* What one step did: the debug file parsed, byte ranges extracted, ranges
\* rendered (with the map and base address used).

LogEntry(op, side, fn, base, len, fn_map, status) ==
  [op |-> op, side |-> side, fn |-> fn, base |-> base, len |-> len,
   fn_map |-> fn_map, status |-> status]
LogParse(status) == LogEntry("parse", "pdb", <<>>, 0, 0, EmptyMap, status)
LogReadFile(side) == LogEntry("readfile", side, <<>>, 0, 0, EmptyMap, "Ok")
LogExtract(side, fn, offset, len, status) ==
  LogEntry("extract", side, fn, offset, len, EmptyMap, status)
LogRender(side, fn, base, len, fn_map, status) ==
  LogEntry("render", side, fn, base, len, fn_map, status)
LogCreate(side, fn, status) == LogEntry("create", side, fn, 0, 0, EmptyMap, status)

\* ------------------------------------------------------ single compare

\* write_disassembly: File::create, then write_disasm into the file.
write_disassembly(function_bytes, opts, addr, fn_map) ==
  write_disasm(function_bytes, opts, addr, fn_map)

WriteCompareResult(status, sym, orig_asm, compare_asm, log) ==
  [status |-> status, sym |-> sym, orig_asm |-> orig_asm,
   compare_asm |-> compare_asm, log |-> log]

NoSymbol == [name |-> <<>>, file |-> "", offset |-> 0, size |-> 0]

\* The rebuilt side of write_compare is sized from the debug file even when
\* truncation is requested.
compare_len_untruncated(truncate_to_original, orig_fn, fn_sym) == fn_sym.size

\* write_compare, lines 175-184: the length of the rebuilt side
compare_len(truncate_to_original, orig_fn, fn_sym) ==
  IF truncate_to_original THEN Unwrap(orig_fn.size) ELSE fn_sym.size

\* write_compare, lines 169-173: the length of the reference side
orig_len(orig_fn, fn_sym) ==
  IF IsSome(orig_fn.size) THEN Unwrap(orig_fn.size) ELSE fn_sym.size

\* What File::create does to orig.asm and to compare.asm: the file is
\* created (and emptied), or the call fails and leaves the file alone. The
\* second file is not reached when the first cannot be created.
CreateOutcomes ==
  {[orig |-> TRUE, compare |-> TRUE], [orig |-> TRUE, compare |-> FALSE],
   [orig |-> FALSE, compare |-> FALSE]}

\* write_compare: old is the pair of output files before the call, pdb_fn_map
\* the map get_pdb_fn_map built this time, created what File::create does.
write_compare(inf, orig_addr_offset, orig_fn, orig_fn_map, pdb, images, pdb_fn_map, overflow_checks, old, created) ==
  LET parsed == get_pdb_funcs(pdb)
      name   == inf.debug_symbol
  IN
  IF parsed.status # "Ok"
  THEN WriteCompareResult(parsed.status, NoSymbol, old.orig_asm, old.compare_asm,
                          <<LogParse(parsed.status)>>)
  ELSE IF name \notin DOMAIN parsed.funcs
  THEN WriteCompareResult("SymbolNotFound", NoSymbol, old.orig_asm, old.compare_asm,
                          <<LogParse("Ok")>>)
  ELSE
    LET fn_sym == parsed.funcs[name]
        olen   == orig_len(orig_fn, fn_sym)
        clen   == compare_len(inf.truncate_to_original, orig_fn, fn_sym)
        off    == CheckedSub(orig_fn.addr, orig_addr_offset, overflow_checks)
        log0   == <<LogParse("Ok")>>
    IN
    IF off.status = "Panic"
    THEN WriteCompareResult("Panic", fn_sym, old.orig_asm, old.compare_asm,
                            Append(log0, LogExtract("orig", name, 0, olen, "Overflow")))
    ELSE
      LET oread == IF off.status = "Wrapped"
                   THEN [status |-> "IoError", bytes |-> <<>>]
                   ELSE read_file_into(images.orig, off.value, olen)
          log1  == Append(log0, LogExtract("orig", name, off.value, olen, oread.status))
      IN
      IF oread.status # "Ok"
      THEN WriteCompareResult("IoError", fn_sym, old.orig_asm, old.compare_asm, log1)
      ELSE
        LET cread == read_file_into(images.compare, fn_sym.offset, clen)
            log2  == Append(log1, LogExtract("pdb", name, fn_sym.offset, clen, cread.status))
        IN
        IF cread.status # "Ok"
        THEN WriteCompareResult("IoError", fn_sym, old.orig_asm, old.compare_asm, log2)
        ELSE IF ~created.orig
        THEN WriteCompareResult("IoError", fn_sym, old.orig_asm, old.compare_asm,
                                Append(log2, LogCreate("orig", name, "IoError")))
        ELSE
          LET o    == write_disassembly(oread.bytes, inf.disasm_opts, orig_fn.addr, orig_fn_map)
              log3 == Append(log2, LogRender("orig", name, orig_fn.addr, Len(oread.bytes),
                                             orig_fn_map, o.status))
          IN
          IF o.status # "Ok"
          THEN WriteCompareResult(o.status, fn_sym, Some(o.lines), old.compare_asm, log3)
          ELSE IF ~created.compare
          THEN WriteCompareResult("IoError", fn_sym, Some(o.lines), old.compare_asm,
                                  Append(log3, LogCreate("pdb", name, "IoError")))
          ELSE
            LET addr == fn_sym.offset + PDB_SEGMENT_OFFSET
                c    == write_disassembly(cread.bytes, inf.disasm_opts, addr, pdb_fn_map)
                log4 == Append(log3, LogRender("pdb", name, addr, Len(cread.bytes),
                                               pdb_fn_map, c.status))
            IN  WriteCompareResult(c.status, fn_sym, Some(o.lines), Some(c.lines), log4)

\* ----------------------------------------------------------------- state

VARIABLES
  command,          \* the subcommand: "compare", "full_orig", "full_pdb", "report"
  cfg,              \* ComparerConfig: [func, address_offset]
  info,             \* the command info: flags, disasm_opts, debug_symbol
  images,           \* the two binaries: [orig, compare]
  overflow_checks,  \* whether the build panics on integer overflow
  pdb_file,         \* the debug file: [readable, functions]
  pc,               \* position of the command
  result,           \* what run returned: None, or Some of "Ok" or an error
  last_offset_size, \* CompareCommandInfo.last_offset_size
  watching,         \* the watcher is set up
  events,           \* the watcher's channel
  stats,            \* ghost: events delivered and consumed, comparison runs
  locals,           \* locals of the running command
  todo,             \* functions the sweep has not reached yet
  report_data,      \* Vec<DualFunctionReport> built so far
  out_files,        \* orig.asm and compare.asm
  listing,          \* orig_full.asm or compare_full.asm
  printed,          \* what the last step printed
  step,             \* ghost: what the last step did
  fmt               \* the formatter under test (SpecRender)

vars == <<command, cfg, info, images, overflow_checks, pdb_file, pc, result,
          last_offset_size, watching, events, stats, locals, todo, report_data,
          out_files, listing, printed, step, fmt>>

inputs == <<command, cfg, info, images, overflow_checks>>
sweepVars == <<todo, report_data, listing>>
watchVars == <<watching, events, pdb_file>>

\* ---------------------------------------------------------------- inputs

F == <<"f">>
G == <<"g">>
ImageBase == 1024 * 4096

\* f: call +0 ; nop ; ret   g (at +5): nop ; ret   then nop and the two
\* bytes 0F 04, which are no instruction
OrigImage == <<232, 0, 0, 0, 0, 144, 195, 144, 15, 4>>
CompareImage == <<232, 0, 0, 0, 0, 144, 195, 144, 15, 4>>

DefaultOpts == [print_adresses |-> FALSE, show_mem_disp |-> TRUE, show_imms |-> TRUE]

\* Definitions of f and g in the config; <<>> is no definition. A definition
\* below the base address is a misconfigured one.
CfgF == {<<>>} \cup {<<FunctionDefinition(F, ImageBase, sz)>> : sz \in {None, Some(2), Some(7)}}
             \cup {<<FunctionDefinition(F, ImageBase - 1, sz)>> : sz \in {None, Some(2)}}
CfgG == {<<>>} \cup {<<FunctionDefinition(G, ImageBase + 5, sz)>> :
                       sz \in {None, Some(2), Some(5), Some(7)}}
CfgGCompare == {<<>>, <<FunctionDefinition(G, ImageBase + 5, Some(2))>>}

\* Records of f and g in the debug file.
PdbF == {<<>>} \cup {<<PdbRecord(Some(<<"f", "(">>), PDB_PREAMBLE, e)>> :
                       e \in {None, Some(PDB_PREAMBLE + 7), Some(PDB_PREAMBLE + 9)}}
\* A record without a name, behind the records of f.
Nameless == <<PdbRecord(None, PDB_PREAMBLE + 5, Some(PDB_PREAMBLE + 7))>>
\* Two symbols of the same code: g and h at one offset.
Folded == <<PdbRecord(Some(G), PDB_PREAMBLE + 5, Some(PDB_PREAMBLE + 7)),
            PdbRecord(Some(<<"h">>), PDB_PREAMBLE + 5, Some(PDB_PREAMBLE + 7))>>
PdbG == {<<>>, Nameless, Folded}
          \cup {<<PdbRecord(Some(G), PDB_PREAMBLE + 5, Some(PDB_PREAMBLE + 5 + n))>> :
                  n \in {2, 5, 7}}
PdbGCompare == {<<>>, Nameless, Folded, <<PdbRecord(Some(G), PDB_PREAMBLE + 5, Some(PDB_PREAMBLE + 7))>>}

Unreadable == [readable |-> FALSE, functions |-> <<>>]
PdbFiles(fs, gs) == {[readable |-> TRUE, functions |-> f \o g] : f \in fs, g \in gs}
                      \cup {Unreadable}

NoLocals == [orig_fn |-> FunctionDefinition(<<>>, 0, None), orig_fn_map |-> EmptyMap,
             pdb_funcs |-> EmptyMap, pdb_fn_map |-> EmptyMap,
             orig_functions |-> EmptyMap]
NoFiles == [orig_asm |-> None, compare_asm |-> None]
NoFmt == [pc |-> "off"]
NoStats == [delivered |-> 0, consumed |-> 0, runs |-> 0]

InitState ==
  /\ pc = "Idle"
  /\ result = None
  /\ last_offset_size = None      \* cmdline.rs: last_offset_size: None
  /\ watching = FALSE
  /\ events = <<>>
  /\ stats = NoStats
  /\ locals = NoLocals
  /\ todo = <<>>
  /\ report_data = <<>>
  /\ out_files = NoFiles
  /\ listing = None
  /\ printed = <<>>
  /\ step = <<>>

InitCompare ==
  /\ command = "compare"
  /\ \E f \in CfgF, g \in CfgGCompare :
       cfg = [func |-> f \o g, address_offset |-> ImageBase]
  /\ \E t \in BOOLEAN, w \in BOOLEAN :
       info = [truncate_to_original |-> t, enable_watcher |-> w,
               debug_symbol |-> F, disasm_opts |-> DefaultOpts]
  /\ pdb_file \in PdbFiles(PdbF, PdbGCompare)

InitSweep ==
  /\ command \in {"full_orig", "full_pdb", "report"}
  /\ \E f \in CfgF, g \in CfgG :
       cfg = [func |-> f \o g, address_offset |-> ImageBase]
  /\ \E t \in BOOLEAN :
       info = [truncate_to_original |-> t, enable_watcher |-> FALSE,
               debug_symbol |-> <<>>, disasm_opts |-> DefaultOpts]
  /\ pdb_file \in (IF command = "full_orig" THEN {Unreadable} ELSE PdbFiles(PdbF, PdbG))

Init ==
  /\ images = [orig |-> OrigImage, compare |-> CompareImage]
  /\ overflow_checks \in BOOLEAN
  /\ InitCompare \/ InitSweep
  /\ InitState
  /\ fmt = NoFmt

\* ---------------------------------------------------- refresh controller

\* cfg.func.iter().find(|s| s.name == debug_symbol)
RECURSIVE find_by_name(_, _)
find_by_name(funcs, name) ==
  IF funcs = <<>> THEN None
  ELSE IF Head(funcs).name = name THEN Some(Head(funcs))
       ELSE find_by_name(Tail(funcs), name)

\* compare::run up to the initial run (lines 59-77)
RunStart ==
  /\ command = "compare" /\ pc = "Idle"
  /\ LET found == find_by_name(cfg.func, info.debug_symbol)
     IN  IF found = None
         THEN /\ pc' = "Done" /\ result' = Some("ConfigSymbolNotFound")
              /\ printed' = <<>> /\ UNCHANGED locals
         ELSE IF Unwrap(found).size = None /\ info.truncate_to_original
         THEN /\ pc' = "Done" /\ result' = Some("RequiredFunctionSizeNotFoundError")
              /\ printed' = <<>> /\ UNCHANGED locals
         ELSE /\ pc' = "Running" /\ UNCHANGED result
              /\ printed' = IF Unwrap(found).size = None
                            THEN <<"WARN: No size defined for the original function">>
                            ELSE <<>>
              /\ locals' = [locals EXCEPT !.orig_fn = Unwrap(found),
                                          !.orig_fn_map = orig_fn_map_of(cfg)]
  /\ step' = <<>>
  /\ UNCHANGED <<inputs, watchVars, sweepVars, last_offset_size, stats, out_files, fmt>>

\* The maps get_pdb_fn_map may build from the debug file as it is now.
PdbFnMapsNow ==
  LET parsed == get_pdb_funcs(pdb_file)
  IN  IF parsed.status = "Ok" THEN get_pdb_fn_map(parsed.funcs) ELSE {EmptyMap}

\* The line run_disassemble prints after a successful comparison.
FoundMessage(sym, last) ==
  [msg    |-> "Found",
   offset |-> sym.offset,
   size   |-> sym.size,
   delta  |-> IF last = None THEN None
              ELSE Some(<<sym.offset - Unwrap(last)[1], sym.size - Unwrap(last)[2]>>)]

\* A successful comparison leaves last_offset_size as it was.
last_after_run_stale(r, last) == last

\* run_disassemble, line 152: info.last_offset_size = Some((offset, size))
last_after_run(r, last) ==
  IF r.status = "Ok" THEN Some(<<r.sym.offset, r.sym.size>>) ELSE last

\* run_disassemble: the effects shared by the initial run and the re-runs
RunDisassemble(r) ==
  /\ out_files' = [orig_asm |-> r.orig_asm, compare_asm |-> r.compare_asm]
  /\ step' = r.log
  /\ last_offset_size' = last_after_run(r, last_offset_size)
  /\ stats' = [stats EXCEPT !.runs = @ + 1]

\* What the controller does after its first comparison, a run that ended
\* with status s, when the watcher could (not) be set up.
after_first_run_always_waits(s, enable_watcher, watch_ok) ==
  IF s = "Panic" THEN [pc |-> "Panicked", result |-> None, watching |-> FALSE]
  ELSE IF s # "Ok" THEN [pc |-> "Done", result |-> Some(s), watching |-> FALSE]
  ELSE [pc |-> "Waiting", result |-> None, watching |-> TRUE]

\* compare::run, lines 80-98
after_first_run(s, enable_watcher, watch_ok) ==
  IF s = "Panic" THEN [pc |-> "Panicked", result |-> None, watching |-> FALSE]
  ELSE IF s # "Ok" THEN [pc |-> "Done", result |-> Some(s), watching |-> FALSE]
  ELSE IF ~enable_watcher THEN [pc |-> "Done", result |-> Some("Ok"), watching |-> FALSE]
  ELSE IF ~watch_ok THEN [pc |-> "Done", result |-> Some("NotifyError"), watching |-> FALSE]
  ELSE [pc |-> "Waiting", result |-> None, watching |-> TRUE]

\* The initial run and what follows it: return, or set up the watcher.
InitialRun ==
  /\ command = "compare" /\ pc = "Running" /\ stats.runs = 0
  /\ \E m \in PdbFnMapsNow, watch_ok \in BOOLEAN, created \in CreateOutcomes :
       LET r == write_compare(info, cfg.address_offset, locals.orig_fn,
                              locals.orig_fn_map, pdb_file, images, m,
                              overflow_checks, out_files, created)
           n == after_first_run(r.status, info.enable_watcher, watch_ok)
       IN  /\ RunDisassemble(r)
           /\ pc' = n.pc /\ result' = n.result /\ watching' = n.watching
           /\ printed' = IF r.status = "Ok"
                         THEN <<FoundMessage(r.sym, last_offset_size)>> ELSE <<>>
  /\ UNCHANGED <<inputs, events, pdb_file, sweepVars, locals, fmt>>

EventKinds == {"Create", "Modify", "Remove", "Access"}

\* Versions of the debug file a rebuild leaves behind.
RebuiltPdbFiles ==
  {[readable |-> TRUE,
    functions |-> <<PdbRecord(Some(<<"f", "(">>), PDB_PREAMBLE + o, Some(PDB_PREAMBLE + o + n))>>] :
     o \in {0, 5}, n \in {2, 5}}

\* The file system changes the debug file and the watcher sends the event.
FsEvent ==
  /\ watching /\ pc \in {"Waiting", "Running"}
  /\ stats.delivered < MaxEvents
  /\ \E kind \in EventKinds :
       /\ events' = Append(events, [tag |-> "Event", kind |-> kind])
       /\ CASE kind = "Access" -> pdb_file' = pdb_file
            [] kind = "Remove" -> pdb_file' = Unreadable
            [] OTHER -> pdb_file' \in RebuiltPdbFiles
  /\ stats' = [stats EXCEPT !.delivered = @ + 1]
  /\ printed' = <<>> /\ step' = <<>>
  /\ UNCHANGED <<inputs, watching, pc, result, last_offset_size, locals, sweepVars,
                 out_files, fmt>>

\* The watcher reports an error on the channel.
WatcherError ==
  /\ watching /\ pc \in {"Waiting", "Running"}
  /\ stats.delivered < MaxEvents
  /\ events' = Append(events, [tag |-> "Error", kind |-> ""])
  /\ stats' = [stats EXCEPT !.delivered = @ + 1]
  /\ printed' = <<>> /\ step' = <<>>
  /\ UNCHANGED <<inputs, watching, pdb_file, pc, result, last_offset_size, locals,
                 sweepVars, out_files, fmt>>

\* Every event kind starts a re-run.
is_rerun_event_any(msg) == msg.tag = "Event"

\* EventKind::Create(_) | EventKind::Modify(_)
is_rerun_event(msg) == msg.tag = "Event" /\ msg.kind \in {"Create", "Modify"}

\* rx.recv() and the match on the message (lines 101-118)
Recv ==
  /\ command = "compare" /\ pc = "Waiting" /\ events # <<>>
  /\ LET msg == Head(events)
     IN  /\ events' = Tail(events)
         /\ IF msg.tag = "Error"
            THEN /\ pc' = "Exited" /\ printed' = <<"Watcher error">>
                 /\ UNCHANGED stats
            ELSE /\ pc' = IF is_rerun_event(msg) THEN "Running" ELSE "Waiting"
                 /\ printed' = <<>>
                 /\ stats' = IF msg.kind \in {"Create", "Modify"}
                             THEN [stats EXCEPT !.consumed = @ + 1] ELSE stats
  /\ step' = <<>>
  /\ UNCHANGED <<inputs, watching, pdb_file, result, last_offset_size, locals,
                 sweepVars, out_files, fmt>>

\* The re-run of line 104; its error is printed and the loop goes on.
Rerun ==
  /\ command = "compare" /\ pc = "Running" /\ stats.runs >= 1
  /\ \E m \in PdbFnMapsNow, created \in CreateOutcomes :
       LET r == write_compare(info, cfg.address_offset, locals.orig_fn,
                              locals.orig_fn_map, pdb_file, images, m,
                              overflow_checks, out_files, created)
       IN  /\ RunDisassemble(r)
           /\ pc' = IF r.status = "Panic" THEN "Panicked" ELSE "Waiting"
           /\ printed' = CASE r.status = "Ok" -> <<FoundMessage(r.sym, last_offset_size)>>
                           [] r.status = "Panic" -> <<>>
                           [] OTHER -> <<r.status>>
  /\ UNCHANGED <<inputs, watchVars, result, sweepVars, locals, fmt>>

\* ------------------------------------------------------ full listings

\* write_function_head
FunctionHead(name, size) == <<"; ", name, "; size: ", size>>

\* How a sweep step ends: the sweep goes on, returns an error, or the
\* process aborts.
SweepGoesOn ==
  /\ todo' = Tail(todo) /\ pc' = "Sweep" /\ UNCHANGED result
SweepReturns(err) ==
  /\ pc' = "Done" /\ result' = Some(err) /\ UNCHANGED todo
SweepAborts ==
  /\ pc' = "Panicked" /\ UNCHANGED <<result, todo>>

\* generate_full_orig up to the loop (lines 36-53)
FullOrigStart ==
  /\ command = "full_orig" /\ pc = "Idle"
  /\ pc' = "Sweep"
  /\ todo' = cfg.func
  /\ locals' = [locals EXCEPT !.orig_fn_map = orig_fn_map_of(cfg)]
  /\ listing' = Some(<<>>)
  /\ step' = <<LogReadFile("orig")>>
  /\ printed' = <<>>
  /\ UNCHANGED <<inputs, watchVars, result, last_offset_size, stats, report_data,
                 out_files, fmt>>

\* One iteration of the loop of generate_full_orig (lines 54-78)
FullOrigStep ==
  /\ command = "full_orig" /\ pc = "Sweep" /\ todo # <<>>
  /\ LET func == Head(todo)
     IN
     IF func.size = None
     THEN /\ printed' = <<"Note: Skipping because no size was defined.">>
          /\ step' = <<>> /\ UNCHANGED listing /\ SweepGoesOn
     ELSE
       LET size   == Unwrap(func.size)
           headed == Some(Append(Unwrap(listing), FunctionHead(func.name, size)))
           off    == CheckedSub(func.addr, cfg.address_offset, overflow_checks)
           got    == IF off.status = "Wrapped"
                     THEN [status |-> "FunctionDefSizeWrong", bytes |-> <<>>]
                     ELSE get_range(images.orig, off.value, size)
           log    == <<LogExtract("orig", func.name, off.value, size, got.status)>>
       IN
       /\ printed' = <<>>
       /\ IF off.status = "Panic"
          THEN /\ listing' = headed
               /\ step' = <<LogExtract("orig", func.name, 0, size, "Overflow")>>
               /\ SweepAborts
          ELSE IF got.status # "Ok"
          THEN /\ listing' = headed /\ step' = log
               /\ SweepReturns("FunctionDefSizeWrong")
          ELSE LET d == write_disasm(got.bytes, info.disasm_opts, func.addr,
                                     locals.orig_fn_map)
               IN  /\ listing' = Some(Unwrap(headed) \o d.lines)
                   /\ step' = Append(log, LogRender("orig", func.name, func.addr,
                                       Len(got.bytes), locals.orig_fn_map, d.status))
                   /\ IF d.status = "Ok" THEN SweepGoesOn ELSE SweepAborts
  /\ UNCHANGED <<inputs, watchVars, last_offset_size, stats, locals, report_data,
                 out_files, fmt>>

\* generate_full_pdb up to the loop (lines 86-108)
FullPdbStart ==
  /\ command = "full_pdb" /\ pc = "Idle"
  /\ LET parsed == get_pdb_funcs(pdb_file)
     IN  /\ step' = IF parsed.status = "Ok"
                    THEN <<LogParse("Ok"), LogReadFile("pdb")>>
                    ELSE <<LogParse(parsed.status)>>
         /\ CASE parsed.status = "Ok" ->
                   /\ pc' = "Sweep" /\ UNCHANGED result
                   /\ todo' = cfg.func
                   /\ listing' = Some(<<>>)
                   /\ \E m \in get_pdb_fn_map(parsed.funcs) :
                        locals' = [locals EXCEPT !.pdb_funcs = parsed.funcs,
                                                 !.pdb_fn_map = m]
              [] parsed.status = "Panic" ->
                   /\ pc' = "Panicked" /\ UNCHANGED <<result, todo, listing, locals>>
              [] OTHER ->
                   /\ pc' = "Done" /\ result' = Some(parsed.status)
                   /\ UNCHANGED <<todo, listing, locals>>
  /\ printed' = <<>>
  /\ UNCHANGED <<inputs, watchVars, last_offset_size, stats, report_data, out_files, fmt>>

\* The rebuilt side of the listing is sized from the debug file alone.
full_pdb_size_untruncated(truncate_to_original, func, pdb_func) == pdb_func.size

\* generate_full_pdb, lines 114-126: the number of bytes listed
full_pdb_size(truncate_to_original, func, pdb_func) ==
  IF truncate_to_original
  THEN IF IsSome(func.size) THEN Unwrap(func.size) ELSE pdb_func.size
  ELSE pdb_func.size

\* One iteration of the loop of generate_full_pdb (lines 109-144)
FullPdbStep ==
  /\ command = "full_pdb" /\ pc = "Sweep" /\ todo # <<>>
  /\ LET func == Head(todo)
     IN
     IF func.name \notin DOMAIN locals.pdb_funcs
     THEN /\ printed' = <<"WARN: Function was not found in the PDB.">>
          /\ step' = <<>> /\ UNCHANGED <<listing, locals>> /\ SweepGoesOn
     ELSE
       LET pdb_func == locals.pdb_funcs[func.name]
           headed   == Some(Append(Unwrap(listing), FunctionHead(func.name, pdb_func.size)))
           size     == full_pdb_size(info.truncate_to_original, func, pdb_func)
           got      == get_range(images.compare, pdb_func.offset, size)
           log      == <<LogExtract("pdb", func.name, pdb_func.offset, size, got.status)>>
           addr     == pdb_func.offset + PDB_SEGMENT_OFFSET
       IN
       /\ locals' = [locals EXCEPT !.pdb_funcs =
                       [n \in DOMAIN locals.pdb_funcs \ {func.name} |-> locals.pdb_funcs[n]]]
       /\ printed' = IF info.truncate_to_original /\ func.size = None
                     THEN <<"WARN: No size defined for the original function">>
                     ELSE <<>>
       /\ IF got.status # "Ok"
          THEN /\ listing' = headed /\ step' = log
               /\ SweepReturns("FunctionDefSizeWrong")
          ELSE LET d == write_disasm(got.bytes, info.disasm_opts, addr, locals.pdb_fn_map)
               IN  /\ listing' = Some(Unwrap(headed) \o d.lines)
                   /\ step' = Append(log, LogRender("pdb", func.name, addr,
                                       Len(got.bytes), locals.pdb_fn_map, d.status))
                   /\ IF d.status = "Ok" THEN SweepGoesOn ELSE SweepAborts
  /\ UNCHANGED <<inputs, watchVars, last_offset_size, stats, report_data, out_files, fmt>>

\* The end of a listing: the loop is over (generate_full_pdb then warns about
\* the functions of the debug file the config does not name).
FullEnd ==
  /\ command \in {"full_orig", "full_pdb"} /\ pc = "Sweep" /\ todo = <<>>
  /\ pc' = "Done" /\ result' = Some("Ok")
  /\ printed' = IF command = "full_pdb" /\ DOMAIN locals.pdb_funcs # {}
                THEN <<"WARN: Function was not found in the config.">> ELSE <<>>
  /\ step' = <<>>
  /\ UNCHANGED <<inputs, watchVars, last_offset_size, stats, locals, sweepVars,
                 out_files, fmt>>

NextFull == FullOrigStart \/ FullOrigStep \/ FullPdbStart \/ FullPdbStep \/ FullEnd

\* ------------------------------------------------------------- report

\* The longest common subsequence of two line sequences: the lines a
\* line diff (TextDiff::from_lines) reports as equal.
RECURSIVE lcs_len(_, _)
lcs_len(a, b) ==
  IF a = <<>> \/ b = <<>> THEN 0
  ELSE IF Head(a) = Head(b) THEN 1 + lcs_len(Tail(a), Tail(b))
  ELSE LET x == lcs_len(Tail(a), b)
           y == lcs_len(a, Tail(b))
       IN  IF x >= y THEN x ELSE y

\* The ratio of two empty texts is computed as 2*M/T with T = 0.
diff_ratio_no_empty_case(matches, old_len, new_len) == <<2 * matches, old_len + new_len>>

\* TextDiff::ratio, a pair <<numerator, denominator>>: 2*M/T, and 1.0 when
\* both sequences are empty.
diff_ratio(matches, old_len, new_len) ==
  IF old_len + new_len = 0 THEN <<1, 1>>
  ELSE <<2 * matches, old_len + new_len>>

\* TextDiff::unified_diff: no hunk when every line is equal, else the hunks
\* (here: what they delete and insert).
unified_diff(matches, old_len, new_len) ==
  IF old_len = matches /\ new_len = matches THEN <<>>
  ELSE <<[deleted |-> old_len - matches, inserted |-> new_len - matches]>>

\* The CompareResult create_comparison_data returns (lines 412-420)
CompareResult(orig_fn_asm, pdb_fn_asm) ==
  LET m == lcs_len(orig_fn_asm, pdb_fn_asm)
  IN  [orig_asm     |-> orig_fn_asm,
       new_asm      |-> pdb_fn_asm,
       unified_diff |-> unified_diff(m, Len(orig_fn_asm), Len(pdb_fn_asm)),
       match_ratio  |-> diff_ratio(m, Len(orig_fn_asm), Len(pdb_fn_asm))]

Lookup(map, key) == IF key \in DOMAIN map THEN Some(map[key]) ELSE None

ComparisonData(status, res, log) == [status |-> status, result |-> res, log |-> log]

\* The report sizes the rebuilt side from the reference when truncating.
report_pdb_len_truncated(truncate_to_original, orig_fn, f) ==
  IF truncate_to_original /\ orig_fn # None /\ IsSome(Unwrap(orig_fn).size)
  THEN Unwrap(Unwrap(orig_fn).size) ELSE f.size

\* create_comparison_data, line 401: the length of the rebuilt side
report_pdb_len(truncate_to_original, orig_fn, f) == f.size

\* create_comparison_data: the reference side (lines 367-391)
report_orig_side(fn_name, orig, pdb_fn, opts, checks) ==
  LET orig_fn == Lookup(orig.functions, fn_name)
  IN
  IF orig_fn = None THEN [status |-> "Ok", asm |-> <<>>, log |-> <<>>]
  ELSE
    LET f    == Unwrap(orig_fn)
        off  == CheckedSub(f.addr, orig.base_address, checks)
        size == IF IsSome(f.size) THEN f.size
                ELSE IF pdb_fn # None THEN Some(Unwrap(pdb_fn).size) ELSE None
    IN
    IF off.status = "Panic"
    THEN [status |-> "Panic", asm |-> <<>>,
          log |-> <<LogExtract("orig", fn_name, 0, 0, "Overflow")>>]
    ELSE IF size = None
    THEN [status |-> "RequiredFunctionSizeNotFoundError", asm |-> <<>>, log |-> <<>>]
    ELSE
      LET got == IF off.status = "Wrapped" THEN [status |-> "Panic", bytes |-> <<>>]
                 ELSE index_range(orig.file, off.value, Unwrap(size))
          log == <<LogExtract("orig", fn_name, off.value, Unwrap(size), got.status)>>
      IN
      IF got.status # "Ok" THEN [status |-> "Panic", asm |-> <<>>, log |-> log]
      ELSE LET d == write_disasm(got.bytes, opts, f.addr, orig.fn_map)
           IN  [status |-> d.status, asm |-> d.lines,
                log |-> Append(log, LogRender("orig", fn_name, f.addr, Len(got.bytes),
                                              orig.fn_map, d.status))]

\* create_comparison_data: the rebuilt side (lines 393-410)
report_pdb_side(fn_name, orig_fn, pdb, opts, truncate_to_original) ==
  LET pdb_fn == Lookup(pdb.functions, fn_name)
  IN
  IF pdb_fn = None THEN [status |-> "Ok", asm |-> <<>>, log |-> <<>>]
  ELSE
    LET f         == Unwrap(pdb_fn)
        len       == report_pdb_len(truncate_to_original, orig_fn, f)
        virt_addr == f.offset + PDB_SEGMENT_OFFSET
        got       == index_range(pdb.file, f.offset, len)
        log       == <<LogExtract("pdb", fn_name, f.offset, len, got.status)>>
    IN
    IF got.status # "Ok" THEN [status |-> "Panic", asm |-> <<>>, log |-> log]
    ELSE LET d == write_disasm(got.bytes, opts, virt_addr, pdb.fn_map)
         IN  [status |-> d.status, asm |-> d.lines,
              log |-> Append(log, LogRender("pdb", fn_name, virt_addr, Len(got.bytes),
                                            pdb.fn_map, d.status))]

NoCompareResult == CompareResult(<<>>, <<>>)

\* create_comparison_data
create_comparison_data(fn_name, orig, pdb, inf, checks) ==
  LET o == report_orig_side(fn_name, orig, Lookup(pdb.functions, fn_name),
                            inf.disasm_opts, checks)
  IN
  IF o.status # "Ok" THEN ComparisonData(o.status, NoCompareResult, o.log)
  ELSE
    LET c == report_pdb_side(fn_name, Lookup(orig.functions, fn_name), pdb,
                             inf.disasm_opts, inf.truncate_to_original)
    IN  IF c.status # "Ok" THEN ComparisonData(c.status, NoCompareResult, o.log \o c.log)
        ELSE ComparisonData("Ok", CompareResult(o.asm, c.asm), o.log \o c.log)

\* get_orig_funcs: by name, a later definition replaces an earlier one
RECURSIVE collect_by_name(_, _)
collect_by_name(funcs, acc) ==
  IF funcs = <<>> THEN acc
  ELSE collect_by_name(Tail(funcs),
         [k \in DOMAIN acc \cup {Head(funcs).name} |->
            IF k = Head(funcs).name THEN Head(funcs) ELSE acc[k]])

get_orig_funcs(c) == collect_by_name(c.func, EmptyMap)

\* The orders in which a HashMap may yield the keys of S.
Orders(S) ==
  {q \in [1 .. Cardinality(S) -> S] : \A i, j \in 1 .. Cardinality(S) : q[i] = q[j] => i = j}

\* orig.functions.keys().chain(pdb.functions.keys()).unique()
NameOrders(orig_functions, pdb_functions) ==
  {a \o b : a \in Orders(DOMAIN orig_functions),
            b \in Orders(DOMAIN pdb_functions \ DOMAIN orig_functions)}

\* create_report_data up to the sweep (lines 300-327)
ReportStart ==
  /\ command = "report" /\ pc = "Idle"
  /\ LET orig_functions == get_orig_funcs(cfg)
         parsed         == get_pdb_funcs(pdb_file)
     IN  /\ step' = IF parsed.status = "Ok"
                    THEN <<LogParse("Ok"), LogReadFile("orig"), LogReadFile("pdb")>>
                    ELSE <<LogParse(parsed.status)>>
         /\ CASE parsed.status = "Ok" ->
                   /\ pc' = "Sweep" /\ UNCHANGED result
                   /\ todo' \in NameOrders(orig_functions, parsed.funcs)
                   /\ \E om \in CollectUnordered({<<orig_functions[n].addr, orig_functions[n]>> :
                                                    n \in DOMAIN orig_functions}),
                         pm \in get_pdb_fn_map(parsed.funcs) :
                        locals' = [locals EXCEPT !.orig_functions = orig_functions,
                                                 !.orig_fn_map = om,
                                                 !.pdb_funcs = parsed.funcs,
                                                 !.pdb_fn_map = pm]
              [] parsed.status = "Panic" ->
                   /\ pc' = "Panicked" /\ UNCHANGED <<result, todo, locals>>
              [] OTHER ->
                   /\ pc' = "Done" /\ result' = Some(parsed.status)
                   /\ UNCHANGED <<todo, locals>>
  /\ report_data' = <<>>
  /\ printed' = <<>>
  /\ UNCHANGED <<inputs, watchVars, last_offset_size, stats, listing, out_files, fmt>>

\* One function of the sweep of create_report_data (lines 328-345)
ReportStep ==
  /\ command = "report" /\ pc = "Sweep" /\ todo # <<>>
  /\ LET fn_name == Head(todo)
         orig    == [functions |-> locals.orig_functions, fn_map |-> locals.orig_fn_map,
                     file |-> images.orig, base_address |-> cfg.address_offset]
         pdb     == [functions |-> locals.pdb_funcs, fn_map |-> locals.pdb_fn_map,
                     file |-> images.compare]
         orig_fn == Lookup(orig.functions, fn_name)
         pdb_fn  == Lookup(pdb.functions, fn_name)
         r       == create_comparison_data(fn_name, orig, pdb, info, overflow_checks)
     IN  /\ step' = r.log
         /\ IF r.status = "Panic"
            THEN /\ SweepAborts /\ UNCHANGED report_data /\ printed' = <<>>
            ELSE /\ SweepGoesOn
                 /\ printed' = IF r.status = "Ok" THEN <<>> ELSE <<r.status>>
                 /\ report_data' = Append(report_data,
                      [fn_name        |-> fn_name,
                       new_addr       |-> IF pdb_fn = None THEN None ELSE Some(Unwrap(pdb_fn).offset),
                       new_size       |-> IF pdb_fn = None THEN None ELSE Some(Unwrap(pdb_fn).size),
                       orig_addr      |-> IF orig_fn = None THEN None ELSE Some(Unwrap(orig_fn).addr),
                       orig_size      |-> IF orig_fn = None THEN None ELSE Unwrap(orig_fn).size,
                       compare_result |-> IF r.status = "Ok" THEN Some(r.result) ELSE None])
  /\ UNCHANGED <<inputs, watchVars, last_offset_size, stats, locals, listing, out_files, fmt>>

\* create_report_data returns the collected reports.
ReportEnd ==
  /\ command = "report" /\ pc = "Sweep" /\ todo = <<>>
  /\ pc' = "Done" /\ result' = Some("Ok")
  /\ printed' = <<>> /\ step' = <<>>
  /\ UNCHANGED <<inputs, watchVars, last_offset_size, stats, locals, sweepVars,
                 out_files, fmt>>

NextReport == ReportStart \/ ReportStep \/ ReportEnd

NextCompare == RunStart \/ InitialRun \/ FsEvent \/ WatcherError \/ Recv \/ Rerun

Next == NextCompare \/ NextFull \/ NextReport

Spec == Init /\ [][Next]_vars

\* --------------------------------------------- the formatter on its own

RECURSIVE SeqsUpTo(_, _)
SeqsUpTo(S, n) ==
  IF n = 0 THEN {<<>>}
  ELSE LET shorter == SeqsUpTo(S, n - 1)
       IN  shorter \cup {Append(q, c) : q \in shorter, c \in S}

RawNames == SeqsUpTo(NameChars, MaxNameLen) \ {<<>>}

\* The little-endian encoding of a signed 32-bit immediate.
Enc32(v) == <<v % 256, (v \div 256) % 256, (v \div 65536) % 256, (v \div 16777216) % 256>>

AllOpts == [print_adresses : BOOLEAN, show_mem_disp : BOOLEAN, show_imms : BOOLEAN]

\* The address map with one known function named raw at addr: on the
\* reference side from the config, on the rebuilt side from the debug file.
FmtMaps(side, raw, addr) ==
  IF side = "orig"
  THEN {orig_fn_map_of([func |-> <<FunctionDefinition(raw, addr, None)>>])}
  ELSE get_pdb_fn_map(get_pdb_funcs(
         [readable |-> TRUE,
          functions |-> <<PdbRecord(Some(raw), addr - PDB_SEGMENT_OFFSET + PDB_PREAMBLE,
                                    None)>>]).funcs)

FmtBase(side) == IF side = "orig" THEN ImageBase + 4096 ELSE PDB_SEGMENT_OFFSET + 8192

\* A function of lead nops, one direct call and a ret, and one known
\* function named raw, 5 + d bytes behind the start of the function.
FmtInputs ==
  UNION {
    {[pc |-> "input", side |-> side, raw |-> raw, base |-> FmtBase(side), lead |-> lead,
      imm |-> imm, opts |-> opts, fn_map |-> m,
      bytes |-> [i \in 1 .. lead |-> 144] \o <<OPCODE_CALL>> \o Enc32(imm) \o <<195>>,
      out |-> [status |-> "", lines |-> <<>>], keys |-> {}] :
       lead \in {0, 1}, imm \in -MaxImm .. MaxImm, opts \in AllOpts,
       m \in FmtMaps(side, raw, FmtBase(side) + 5 + d)} :
    side \in {"orig", "pdb"}, raw \in RawNames, d \in {0, 2}}

InitRender ==
  /\ fmt \in FmtInputs
  /\ command = "render"
  /\ cfg = [func |-> <<>>, address_offset |-> 0]
  /\ info = [truncate_to_original |-> FALSE, enable_watcher |-> FALSE,
             debug_symbol |-> <<>>, disasm_opts |-> DefaultOpts]
  /\ images = [orig |-> <<>>, compare |-> <<>>]
  /\ overflow_checks = FALSE
  /\ pdb_file = Unreadable
  /\ InitState

\* The debug file with the one function named raw.
FmtPdb(raw) ==
  [readable |-> TRUE, functions |-> <<PdbRecord(Some(raw), PDB_PREAMBLE, None)>>]

\* write_disasm on the input, and the keys of the name table get_pdb_funcs
\* builds for the function named raw
Render ==
  /\ fmt.pc = "input"
  /\ fmt' = [fmt EXCEPT !.pc = "done",
                        !.out = write_disasm(fmt.bytes, fmt.opts, fmt.base, fmt.fn_map),
                        !.keys = DOMAIN get_pdb_funcs(FmtPdb(fmt.raw)).funcs]
  /\ UNCHANGED <<inputs, watchVars, sweepVars, pc, result, last_offset_size, stats,
                 locals, out_files, printed, step>>

NextRender == Render

SpecRender == InitRender /\ [][NextRender]_vars

\* ------------------------------------- the formatter on single operands

OperandKinds ==
  {"push", "jmp", "call_abs", "call_reg", "call_disp8", "jmp_abs", "add_abs", "add_disp8"}

\* One instruction of the kind with the value v as its immediate or
\* displacement, and a ret behind it.
StreamOf(kind, v) ==
  (CASE kind = "push"       -> <<104>> \o Enc32(v)       \* push imm32
     [] kind = "jmp"        -> <<235, v>>                 \* jmp rel8
     [] kind = "call_abs"   -> <<255, 21>> \o Enc32(v)   \* call [disp32]
     [] kind = "call_reg"   -> <<255, 16>>                \* call [eax]
     [] kind = "call_disp8" -> <<255, 80, v>>             \* call [eax+disp8]
     [] kind = "jmp_abs"    -> <<255, 37>> \o Enc32(v)   \* jmp [disp32]
     [] kind = "add_abs"    -> <<0, 5>> \o Enc32(v)      \* add [disp32], al
     [] kind = "add_disp8"  -> <<0, 64, v>>)              \* add [eax+disp8], al
  \o <<195>>

\* Two streams of the same instruction that differ at most in the value.
OperandInputs ==
  {[pc |-> "input", kind |-> kind, v1 |-> v1, v2 |-> v2, opts |-> opts,
    base |-> ImageBase, fn_map |-> EmptyMap,
    bytes |-> StreamOf(kind, v1), bytes2 |-> StreamOf(kind, v2),
    out |-> [status |-> "", lines |-> <<>>],
    out2 |-> [status |-> "", lines |-> <<>>]] :
     kind \in OperandKinds, v1 \in 1 .. MaxImm, v2 \in 1 .. MaxImm, opts \in AllOpts}

InitOperands ==
  /\ fmt \in OperandInputs
  /\ command = "render"
  /\ cfg = [func |-> <<>>, address_offset |-> 0]
  /\ info = [truncate_to_original |-> FALSE, enable_watcher |-> FALSE,
             debug_symbol |-> <<>>, disasm_opts |-> DefaultOpts]
  /\ images = [orig |-> <<>>, compare |-> <<>>]
  /\ overflow_checks = FALSE
  /\ pdb_file = Unreadable
  /\ InitState

\* write_disasm on both streams, with the same options
RenderPair ==
  /\ fmt.pc = "input"
  /\ fmt' = [fmt EXCEPT !.pc = "done",
                        !.out = write_disasm(fmt.bytes, fmt.opts, fmt.base, fmt.fn_map),
                        !.out2 = write_disasm(fmt.bytes2, fmt.opts, fmt.base, fmt.fn_map)]
  /\ UNCHANGED <<inputs, watchVars, sweepVars, pc, result, last_offset_size, stats,
                 locals, out_files, printed, step>>

NextOperands == RenderPair

SpecOperands == InitOperands /\ [][NextOperands]_vars

\* ------------------------------------------------------------------ C1

Range(q) == {q[i] : i \in 1 .. Len(q)}
IsPrefixOf(p, q) == Len(p) <= Len(q) /\ SubSeq(q, 1, Len(p)) = p

\* The text after the mnemonic and its blank.
OperandText(line, mnemonic) ==
  LET i == CHOOSE k \in 1 .. Len(line) : line[k] = mnemonic
  IN  SubSeq(line, i + 2, Len(line))

RECURSIVE HexValue(_)
HexValue(digits) ==
  IF digits = <<>> THEN 0
  ELSE 16 * HexValue(SubSeq(digits, 1, Len(digits) - 1))
       + (CHOOSE d \in 0 .. 15 : HexDigits[d + 1] = digits[Len(digits)])

FmtCallTarget == fmt.base + fmt.lead + fmt.imm + 5
FmtCallOperand == OperandText(fmt.out.lines[fmt.lead + 1], "call")

\* C1: the operand of a direct call (opcode 0xE8) is decided by the target
\* address (address of the instruction + immediate + instruction length): a
\* target that is a key of the address map prints the mapped function's name
\* up to its first '(' and not the hex address; any other target prints 0x
\* followed by the target in upper-case hexadecimal.
C1_CallOperand ==
  fmt.pc = "done" =>
    LET operand == FmtCallOperand
    IN  /\ fmt.out.status = "Ok"
        /\ IF FmtCallTarget \in DOMAIN fmt.fn_map
           THEN /\ IsPrefixOf(operand, fmt.raw)
                /\ "(" \notin Range(operand)
                /\ Len(operand) < Len(fmt.raw) => fmt.raw[Len(operand) + 1] = "("
                /\ ~IsPrefixOf(<<"0", "x">>, operand)
           ELSE /\ IsPrefixOf(<<"0", "x">>, operand)
                /\ Len(operand) > 2
                /\ Range(SubSeq(operand, 3, Len(operand))) \subseteq Range(HexDigits)
                /\ HexValue(SubSeq(operand, 3, Len(operand))) = FmtCallTarget

\* A call behind a nop whose target is a known function with a
\* parenthetical suffix in its name.
C1_Witness ==
  /\ fmt.pc = "done"
  /\ fmt.lead = 1
  /\ FmtCallTarget \in DOMAIN fmt.fn_map
  /\ Len(FmtCallOperand) = 1
  /\ Len(fmt.raw) = 2 /\ fmt.raw[2] = "("

\* ------------------------------------------------- claims on the commands

Truncating == info.truncate_to_original
Sweeps == {"full_orig", "full_pdb", "report"}

\* The definition of the function named n in the config, if any.
ConfigDef(n) ==
  IF \E j \in 1 .. Len(cfg.func) : cfg.func[j].name = n
  THEN Some(cfg.func[CHOOSE j \in 1 .. Len(cfg.func) : cfg.func[j].name = n])
  ELSE None
DeclaredSize(n) == IF ConfigDef(n) = None THEN None ELSE Unwrap(ConfigDef(n)).size

\* The records of the debug file whose normalized name is n.
PdbRecordsOf(n) ==
  {r \in Range(pdb_file.functions) :
     r.name # None /\ demangle_function_name(Unwrap(r.name)) = n}
PdbKey(r) == r.start_rva - PDB_PREAMBLE + PDB_SEGMENT_OFFSET
PdbSize(r) == IF r.end_rva = None THEN 0 ELSE Unwrap(r.end_rva) - r.start_rva

Results ==
  {Unwrap(report_data[i].compare_result) :
     i \in {j \in 1 .. Len(report_data) : report_data[j].compare_result # None}}

RatioIsOne(r) == r[2] > 0 /\ r[1] = r[2]

\* C2: the match ratio of a comparison is 1.0 exactly when the two rendered
\* texts are line-identical, and then the unified diff is empty; two empty
\* texts included.
C2_RatioOneIffIdentical ==
  \A r \in Results :
    /\ RatioIsOne(r.match_ratio) <=> r.orig_asm = r.new_asm
    /\ r.orig_asm = r.new_asm => r.unified_diff = <<>>
    /\ r.orig_asm # r.new_asm => r.match_ratio[1] < r.match_ratio[2]

\* One report with a comparison of two empty texts and a comparison of two
\* equal texts that are not empty, both with ratio 1.0.
C2_Witness ==
  \E r1, r2 \in Results :
    /\ r1.orig_asm = <<>> /\ r1.new_asm = <<>> /\ RatioIsOne(r1.match_ratio)
    /\ r2.orig_asm # <<>> /\ r2.orig_asm = r2.new_asm /\ RatioIsOne(r2.match_ratio)
    /\ r2.unified_diff = <<>>

\* C3: with truncate_to_original set and a declared size S of the reference
\* function, no operation renders more than S bytes of the rebuilt function.
C3_TruncatedToOriginal ==
  Truncating =>
    \A i \in 1 .. Len(step) :
      (step[i].op = "render" /\ step[i].side = "pdb" /\ DeclaredSize(step[i].fn) # None)
        => step[i].len <= Unwrap(DeclaredSize(step[i].fn))

\* C4: with truncation requested and no declared size of the reference
\* function, the operation fails with the required-size error before the
\* debug file is parsed and before any byte is extracted or rendered.
C4_RequiredSizeFirst ==
  Truncating =>
    /\ \A i \in 1 .. Len(step) :
         (step[i].op \in {"extract", "render"} /\ ConfigDef(step[i].fn) # None)
           => DeclaredSize(step[i].fn) # None
    /\ (command = "compare" /\ pc # "Idle" /\ ConfigDef(info.debug_symbol) # None
          /\ DeclaredSize(info.debug_symbol) = None)
         => /\ result = Some("RequiredFunctionSizeNotFoundError")
            /\ step = <<>> /\ out_files = NoFiles

\* A function of the report the config defines without a size and the debug
\* file does not know.
NeitherSize(n) ==
  /\ ConfigDef(n) # None /\ DeclaredSize(n) = None
  /\ PdbRecordsOf(n) = {}

\* C5: the reference side is extracted with the declared size when there is
\* one and else with the size of the rebuilt symbol; with neither, the
\* comparison ends with the missing-size error and renders nothing.
C5_ReferenceLength ==
  /\ \A i \in 1 .. Len(step) :
       (step[i].op = "extract" /\ step[i].side = "orig" /\ step[i].status # "Overflow")
         => IF DeclaredSize(step[i].fn) # None
            THEN step[i].len = Unwrap(DeclaredSize(step[i].fn))
            ELSE \E r \in PdbRecordsOf(step[i].fn) : step[i].len = PdbSize(r)
  /\ command = "report" =>
       /\ \A i \in 1 .. Len(report_data) :
            NeitherSize(report_data[i].fn_name) => report_data[i].compare_result = None
       /\ (pc = "Sweep" /\ report_data # <<>>
             /\ NeitherSize(report_data[Len(report_data)].fn_name))
            => /\ printed = <<"RequiredFunctionSizeNotFoundError">>
               /\ \A i \in 1 .. Len(step) : step[i].op # "render"
       /\ (pc = "Panicked" /\ todo # <<>>) => ~NeitherSize(Head(todo))

ErrorValues == {"IoError", "FunctionDefSizeWrong"}

\* C6: a byte range that is not inside the image (a reference address below
\* the base offset included) ends the comparison of the function with an
\* error value: the process is not aborted and nothing of the range is
\* rendered.
C6_OutOfBoundsIsAnError ==
  \A i \in 1 .. Len(step) :
    (step[i].op = "extract" /\ step[i].status # "Ok")
      => /\ step[i].status \in ErrorValues
         /\ pc # "Panicked"
         /\ \A j \in 1 .. Len(step) :
              ~(step[j].op = "render" /\ step[j].side = step[i].side)

\* C7: in a sweep the failure of one function ends only that function: the
\* sweep reaches every function and does not return the function's error.
C7_SweepGoesOn ==
  (command \in Sweeps /\ pc \in {"Done", "Panicked"})
    => /\ todo = <<>>
       /\ pc = "Done"
       /\ result \in {Some("Ok"), Some("PdbError")}

AfterFirstRun ==
  command = "compare" /\ stats.runs = 1 /\ Len(events) = stats.delivered

\* C9 as stated: after the first comparison run the controller is Done
\* exactly when the watcher is disabled and Waiting exactly when it is
\* enabled.
C9_DoneOrWaiting ==
  (AfterFirstRun /\ pc # "Panicked") =>
    /\ pc = "Done" <=> ~info.enable_watcher
    /\ pc = "Waiting" <=> info.enable_watcher

\* C9 amended: after a first comparison run that succeeded the controller is
\* Done exactly when the watcher is disabled or could not be set up and
\* Waiting exactly when the watcher is enabled and set up; a first run that
\* failed leaves the controller Done with the error of the run, whatever the
\* watcher setting; Waiting is never reached with the watcher disabled, nor
\* before the first run.
C9_DoneOrWaitingAfterSuccess ==
  /\ pc = "Waiting" => (info.enable_watcher /\ watching /\ stats.runs >= 1)
  /\ (pc = "Running" /\ stats.runs >= 1) => info.enable_watcher
  /\ (AfterFirstRun /\ pc # "Panicked") =>
       IF out_files.compare_asm # None /\ last_offset_size # None
       THEN /\ pc \in {"Done", "Waiting"}
            /\ pc = "Done" <=> (~info.enable_watcher \/ ~watching)
            /\ pc = "Done" => result \in {Some("Ok"), Some("NotifyError")}
            /\ result = Some("Ok") <=> (pc = "Done" /\ ~info.enable_watcher)
       ELSE /\ pc = "Done"
            /\ result \in {Some("PdbError"), Some("SymbolNotFound"), Some("IoError")}

\* The first run succeeded with the watcher enabled: the controller waits.
C9_Witness ==
  AfterFirstRun /\ pc = "Waiting" /\ info.enable_watcher /\ last_offset_size # None

\* C10: in watch mode the re-runs started are the create and modify events
\* received; an event of another kind starts no run and changes nothing of
\* the controller; an event sent during a run stays in the channel.
C10_RerunPerEvent ==
  /\ [] ((command = "compare" /\ stats.runs >= 1) =>
           stats.consumed = (stats.runs - 1)
                            + (IF pc = "Running" THEN 1 ELSE 0))
  /\ [][(pc = "Waiting" /\ events # <<>> /\ events' = Tail(events)
           /\ Head(events).tag = "Event"
           /\ Head(events).kind \notin {"Create", "Modify"})
          => (pc' = "Waiting"
              /\ UNCHANGED <<result, last_offset_size, out_files, stats, watching>>)]_vars
  /\ [][(pc = "Waiting" /\ events # <<>> /\ events' = Tail(events)
           /\ Head(events).tag = "Event"
           /\ Head(events).kind \in {"Create", "Modify"})
          => pc' = "Running"]_vars
  /\ [][pc = "Running" => IsPrefixOf(events, events')]_vars

\* Two re-runs after two events, the second sent while the first re-run was
\* in progress.
C10_Witness ==
  /\ command = "compare" /\ pc = "Waiting"
  /\ stats.runs = 3 /\ stats.consumed = 2 /\ events = <<>>

\* A comparison run succeeded: its last step rendered the rebuilt side.
RunSucceeded(log) ==
  /\ log # <<>>
  /\ log[Len(log)].op = "render" /\ log[Len(log)].side = "pdb"
  /\ log[Len(log)].status = "Ok"

RunErrors == {"PdbError", "SymbolNotFound", "IoError", "DisasmError"}

\* C11: in watch mode the controller leaves the loop of waiting and re-runs
\* only by a watcher error, which always ends the process; a re-run that
\* fails is reported and the controller waits again.
C11_LoopEndsOnWatcherErrorOnly ==
  [][(command = "compare" /\ watching /\ pc \in {"Waiting", "Running"}) =>
       /\ pc' \in {"Waiting", "Running", "Exited"}
       /\ pc' = "Exited" =>
            (pc = "Waiting" /\ events # <<>> /\ Head(events).tag = "Error")
       /\ (pc = "Waiting" /\ events # <<>> /\ events' = Tail(events)
             /\ Head(events).tag = "Error") => pc' = "Exited"
       /\ (pc = "Running" /\ stats'.runs = stats.runs + 1 /\ ~RunSucceeded(step'))
            => (pc' = "Waiting" /\ Len(printed') = 1 /\ printed'[1] \in RunErrors)]_vars

\* The (offset, size) pairs the debug file as it is now gives the target
\* function.
ResolvedNow ==
  {<<r.start_rva - PDB_PREAMBLE, PdbSize(r)>> : r \in PdbRecordsOf(info.debug_symbol)}

\* C12: last_offset_size is none before the first successful run; a
\* successful run sets it to the (offset, size) it resolved and prints the
\* deltas against the value the previous successful run left; a failed run
\* and every other step leave it unchanged.
C12_LastOffsetSize ==
  /\ [](stats.runs = 0 => last_offset_size = None)
  /\ [][IF stats'.runs = stats.runs + 1 /\ RunSucceeded(step')
        THEN /\ last_offset_size' # None
             /\ Unwrap(last_offset_size') \in ResolvedNow
             /\ Len(printed') = 1
             /\ printed'[1].offset = Unwrap(last_offset_size')[1]
             /\ printed'[1].size = Unwrap(last_offset_size')[2]
             /\ printed'[1].delta =
                  (IF last_offset_size = None THEN None
                   ELSE Some(<<Unwrap(last_offset_size')[1] - Unwrap(last_offset_size)[1],
                               Unwrap(last_offset_size')[2] - Unwrap(last_offset_size)[2]>>))
        ELSE last_offset_size' = last_offset_size]_vars

\* A second re-run that found the function five bytes further and three
\* bytes longer than the run before it.
C12_Witness ==
  /\ command = "compare" /\ pc = "Waiting" /\ stats.runs = 3
  /\ RunSucceeded(step)
  /\ last_offset_size = Some(<<5, 5>>)
  /\ Len(printed) = 1 /\ printed[1].delta = Some(<<5, 3>>)

\* C13: when the decoder fails on an instruction, the render call returns a
\* formatter error value to its caller; a decode failure never aborts the
\* process.
C13_DecodeFailureIsAnErrorValue ==
  \A i \in 1 .. Len(step) :
    (step[i].op = "render" /\ step[i].status # "Ok")
      => (step[i].status = "DisasmError" /\ pc # "Panicked")

NamedRecords == {r \in Range(pdb_file.functions) : r.name # None}

\* C14: records of the debug file without a name are skipped: the
\* extraction succeeds with exactly the symbols of the named records and
\* neither fails nor aborts.
C14_NamelessSkipped ==
  \A i \in 1 .. Len(step) :
    (step[i].op = "parse" /\ pdb_file.readable)
      => /\ step[i].status = "Ok"
         /\ pc # "Panicked"
         /\ command \in {"full_pdb", "report"} =>
              DOMAIN locals.pdb_funcs =
                {demangle_function_name(Unwrap(r.name)) : r \in NamedRecords}

\* The leading run of raw without '@' and '(' is p.
IsLeadingRun(p, raw) ==
  /\ IsPrefixOf(p, raw)
  /\ Range(p) \cap {"@", "("} = {}
  /\ Len(p) < Len(raw) => raw[Len(p) + 1] \in {"@", "("}

\* C15: the normalized name of a raw name is its longest leading run of
\* characters other than '@' and '('; a raw name without such a run is kept
\* as it is; the normalized name of a raw name is never empty.
C15_LeadingRun ==
  fmt.pc = "done" =>
    \E k \in fmt.keys :
      /\ fmt.keys = {k}
      /\ k # <<>>
      /\ IF fmt.raw[1] \in {"@", "("} THEN k = fmt.raw ELSE IsLeadingRun(k, fmt.raw)

\* ------------------------------------------ claims on single operands

\* The first line of a rendering, without address prefix and mnemonic.
FirstOperand(out) ==
  LET line == out.lines[1]
      i    == CHOOSE k \in 1 .. Len(line) : line[k] \in {"push", "jmp", "call", "add"}
  IN  SubSeq(line, i + 2, Len(line))

\* The text is 0x and the upper-case hexadecimal digits of v.
IsHexOf(text, v) ==
  /\ Len(text) > 2 /\ SubSeq(text, 1, 2) = <<"0", "x">>
  /\ Range(SubSeq(text, 3, Len(text))) \subseteq Range(HexDigits)
  /\ HexValue(SubSeq(text, 3, Len(text))) = v

\* C16 as stated: a relative immediate that is no call target renders as $
\* and the signed hex delta; an absolute immediate renders as <imm_addr> and
\* nothing else when show_imms is false and as its hex value when show_imms
\* is true; streams that differ only in absolute immediates render alike
\* when show_imms is false.
C16_ImmAddrPlaceholder ==
  fmt.pc = "done" =>
    LET operand == FirstOperand(fmt.out)
    IN  /\ fmt.kind = "jmp" =>
             /\ SubSeq(operand, 1, 2) = <<"$", "+">>
             /\ IsHexOf(SubSeq(operand, 3, Len(operand)), fmt.v1)
        /\ (fmt.kind = "push" /\ fmt.opts.show_imms) => IsHexOf(operand, fmt.v1)
        /\ (fmt.kind = "push" /\ ~fmt.opts.show_imms) =>
             /\ operand = <<"<imm_addr>">>
             /\ fmt.out.lines = fmt.out2.lines

\* C16 amended: a relative immediate that is no call target renders as $
\* and the signed hex delta, whatever show_imms is; an absolute immediate
\* renders as the typed placeholder <immN>, N the size of the operand in
\* bits, and nothing else when show_imms is false, and as its hex value
\* when show_imms is true; streams that differ only in absolute immediates
\* render alike when show_imms is false.
C16_TypedPlaceholder ==
  fmt.pc = "done" =>
    LET operand == FirstOperand(fmt.out)
    IN  /\ fmt.out.status = "Ok" /\ Len(fmt.out.lines) = 2
        /\ fmt.kind = "jmp" =>
             /\ SubSeq(operand, 1, 2) = <<"$", "+">>
             /\ IsHexOf(SubSeq(operand, 3, Len(operand)), fmt.v1)
        /\ (fmt.kind = "push" /\ fmt.opts.show_imms) => IsHexOf(operand, fmt.v1)
        /\ (fmt.kind = "push" /\ ~fmt.opts.show_imms) =>
             /\ operand = <<"<imm", "3", "2", ">">>
             /\ fmt.out.lines = fmt.out2.lines

\* Two pushes of different values rendered without immediates.
C16_Witness ==
  /\ fmt.pc = "done" /\ fmt.kind = "push" /\ ~fmt.opts.show_imms
  /\ fmt.v1 # fmt.v2
  /\ fmt.out.lines = fmt.out2.lines
  /\ FirstOperand(fmt.out) = <<"<imm", "3", "2", ">">>

\* The tokens of sub occur in text, one behind the other.
Contains(text, sub) ==
  \E i \in 0 .. Len(text) - Len(sub) : SubSeq(text, i + 1, i + Len(sub)) = sub

\* The literal value v in hexadecimal.
HexLiteral(v) == <<"0", "x">> \o UpperHex(v)

MemKinds == {"call_abs", "call_reg", "call_disp8", "jmp_abs", "add_abs", "add_disp8"}
IndirectCallKinds == {"call_abs", "call_reg", "call_disp8"}
DisplacedKinds == {"call_abs", "call_disp8", "jmp_abs", "add_abs", "add_disp8"}

ReportedNames(reports) == [i \in 1 .. Len(reports) |-> reports[i].fn_name]

\* The step of the report sweep on the function at the head of the list
\* adds one report of that function and goes on.
ReportsHeadAndGoesOn ==
  /\ pc' = "Sweep" /\ todo' = Tail(todo)
  /\ Len(report_data') = Len(report_data) + 1
  /\ report_data'[Len(report_data')].fn_name = Head(todo)

\* C18: in the sweep of the report over the union of the names, a function
\* absent from the reference side gets a comparison result with an empty
\* reference text and no error, and a function absent from the rebuilt side
\* is reported and the sweep goes on (in the rebuilt listing: a warning is
\* printed and the loop goes on); when the sweep is over, each name of the
\* union has been compared exactly once.
C18_UnionSweep ==
  [][/\ (command = "report" /\ pc = "Sweep" /\ todo # <<>>
           /\ Head(todo) \notin DOMAIN locals.orig_functions) =>
          /\ ReportsHeadAndGoesOn
          /\ IsSome(report_data'[Len(report_data')].compare_result)
          /\ Unwrap(report_data'[Len(report_data')].compare_result).orig_asm = <<>>
          /\ printed' = <<>>
     /\ (command = "report" /\ pc = "Sweep" /\ todo # <<>>
           /\ Head(todo) \notin DOMAIN locals.pdb_funcs) =>
          ReportsHeadAndGoesOn
     /\ (command = "full_pdb" /\ pc = "Sweep" /\ todo # <<>>
           /\ Head(todo).name \notin DOMAIN locals.pdb_funcs) =>
          /\ pc' = "Sweep" /\ todo' = Tail(todo)
          /\ printed' = <<"WARN: Function was not found in the PDB.">>
     /\ (command = "report" /\ pc = "Sweep" /\ todo = <<>>) =>
          /\ Range(ReportedNames(report_data)) =
               DOMAIN locals.orig_functions \cup DOMAIN locals.pdb_funcs
          /\ Len(report_data) =
               Cardinality(DOMAIN locals.orig_functions \cup DOMAIN locals.pdb_funcs)
    ]_vars

\* -------------------------------------------- claims on the output files

\* C19: every comparison run of the single-function compare, the first one
\* and the re-runs, leaves orig.asm and compare.asm as a pair written by one
\* run: a run that succeeds has written both files, and a run that fails
\* has written neither, so that both still are what the last successful
\* run wrote.
C19_ConsistentPair ==
  [][(command = "compare" /\ stats'.runs = stats.runs + 1) =>
       IF RunSucceeded(step')
       THEN IsSome(out_files'.orig_asm) /\ IsSome(out_files'.compare_asm)
       ELSE out_files' = out_files]_vars

\* ------------------------------------------ claims on the rebuilt-side map

\* C20: the address map of the rebuilt side is a function of the extracted
\* symbols alone: the map a rendering of the rebuilt side was given is the
\* one map every iteration order of the symbols builds, also when two
\* symbols have the same offset, so the rendered text (the name printed for
\* a call target) is the same under every order.
C20_MapOfSymbolsAlone ==
  \A i \in 1 .. Len(step) :
    (step[i].op = "render" /\ step[i].side = "pdb") =>
      \A m \in PdbFnMapsNow : m = step[i].fn_map

====
